---- MODULE Spec2Model ----
(***************************************************************************)
(* A model of src/lib/mdx.ts: the identifier / slug helpers, the zod       *)
(* schemas, getPosts (the listing) and getPost (the detail fetch).         *)
(*                                                                         *)
(* A JavaScript string is a sequence of one-character strings, so that     *)
(* toLowerCase, String.prototype.replace and the regular expressions are   *)
(* computed character by character, as the code computes them.             *)
(***************************************************************************)
EXTENDS Integers, Sequences, FiniteSets, TLC

VARIABLES
    helper,     \* the helper calls made on one (filename, title) input
    schema,     \* one frontmatterSchema.parse call: the raw header and its result
    dir,        \* the content directory: filename -> file content
    files,      \* getPosts: the array readdirSync returned
    tasks,      \* getPosts: the state of each per-file async task (promise)
    results,    \* getPosts: the values the tasks fulfilled with, by index
    completed,  \* getPosts: the indexes of the tasks in the order they settled
    all,        \* getPosts: the promise returned by Promise.all
    ret,        \* getPosts: the promise returned by getPosts
    post        \* getPost: the slug, the file read and the returned promise

vars == <<helper, schema, dir, files, tasks, results, completed, all, ret, post>>

(***************************************************************************)
(* Bounds of the model.                                                    *)
(***************************************************************************)
MaxParts == 3       \* a filename is made of at most MaxParts tokens
MaxTitleLen == 3    \* a title has at most MaxTitleLen characters
MaxFiles == 2       \* the directory holds at most MaxFiles files

(***************************************************************************)
(* Strings.                                                                *)
(***************************************************************************)
LowerLetters ==
    {"a","b","c","d","e","f","g","h","i","j","k","l","m",
     "n","o","p","q","r","s","t","u","v","w","x","y","z"}

Digits == {"0","1","2","3","4","5","6","7","8","9"}

\* String.prototype.toLowerCase on one character (the upper-case letters
\* that occur in the inputs of the model).
ToLowerChar(c) ==
    CASE c = "A" -> "a"
      [] c = "B" -> "b"
      [] c = "D" -> "d"
      [] c = "H" -> "h"
      [] c = "M" -> "m"
      [] c = "W" -> "w"
      [] c = "X" -> "x"
      [] OTHER -> c

toLowerCase(s) == [i \in 1..Len(s) |-> ToLowerChar(s[i])]

\* The positions at which pat occurs in s.
Occurrences(s, pat) ==
    {i \in 1..(Len(s) - Len(pat) + 1) : SubSeq(s, i, i + Len(pat) - 1) = pat}

\* String.prototype.replace(pat, rep) with a string pattern: only the FIRST
\* occurrence of pat is replaced.
replace(s, pat, rep) ==
    LET occ == Occurrences(s, pat)
    IN  IF occ = {} THEN s
        ELSE LET i == CHOOSE j \in occ : \A k \in occ : j <= k
             IN  SubSeq(s, 1, i - 1) \o rep \o SubSeq(s, i + Len(pat), Len(s))

EndsWith(s, suf) ==
    /\ Len(s) >= Len(suf)
    /\ SubSeq(s, Len(s) - Len(suf) + 1, Len(s)) = suf

IsLowerAlnum(c) == c \in LowerLetters \cup Digits

\* s.replace(/[^a-z0-9]+/g, "-"): every maximal run of characters outside
\* [a-z0-9] becomes one hyphen.
RECURSIVE DropRun(_)
DropRun(s) ==
    IF s = <<>> \/ IsLowerAlnum(Head(s)) THEN s ELSE DropRun(Tail(s))

\* (variant: /[^a-z0-9]/g, the + forgotten: one hyphen per character)
replaceEach(s) == [i \in 1..Len(s) |-> IF IsLowerAlnum(s[i]) THEN s[i] ELSE "-"]

RECURSIVE replaceRuns(_)
replaceRuns(s) ==
    IF s = <<>> THEN <<>>
    ELSE IF IsLowerAlnum(Head(s)) THEN <<Head(s)>> \o replaceRuns(Tail(s))
    ELSE <<"-">> \o replaceRuns(DropRun(Tail(s)))

\* slug.match(/^[^-]*/)?.[0]: the longest prefix without a hyphen.  The
\* pattern matches the empty string, so the match is never null.
\* (variant: the whole slug taken as the id)
matchWhole(s) == s

RECURSIVE matchLeading(_)
matchLeading(s) ==
    IF s = <<>> \/ Head(s) = "-" THEN <<>>
    ELSE <<Head(s)>> \o matchLeading(Tail(s))

fileExtension == <<".", "m", "d", "x">>

(***************************************************************************)
(* JavaScript values, as far as the schemas tell them apart: undefined, a  *)
(* string, or something that is not a string (a number).                   *)
(***************************************************************************)
Undefined == [type |-> "undefined", str |-> <<>>]
NumberVal == [type |-> "number", str |-> <<>>]
StringVal(s) == [type |-> "string", str |-> s]

RequiredKeys == <<"title", "date", "description", "author">>
BaseKeys == {"title", "date", "description", "author", "github"}
MetaKeys == BaseKeys \cup {"id", "slug"}

\* A raw header is undefined or an object; an object maps every key to its
\* value, Undefined for a key it does not have.
NoFields == [k \in MetaKeys |-> Undefined]
NoHeader == [type |-> "undefined", fields |-> NoFields]
ObjectVal(f) == [type |-> "object", fields |-> f]

(***************************************************************************)
(* The zod schemas.  A parse returns the list of issue messages, in the    *)
(* order of the keys of the schema; z.object reports every failing key.    *)
(***************************************************************************)
\* z.string({ required_error }) on one value.
zString(v, requiredError) ==
    IF v.type = "string" THEN <<>>
    ELSE IF v.type = "undefined" THEN <<requiredError>>
    ELSE <<"Expected string, received " \o v.type>>

\* z.optional(z.string()) on one value.
zOptionalString(v) ==
    IF v.type = "undefined" THEN <<>> ELSE zString(v, "Required")

requiredError(key) ==
    CASE key = "title" -> "Title is required"
      [] key = "date" -> "Date is required"
      [] key = "description" -> "Description is required"
      [] key = "author" -> "Author is required"

\* (variant: the message of author pasted from date)
frontmatterIssuesPasted(f) ==
    zString(f["title"], requiredError("title"))
    \o zString(f["date"], requiredError("date"))
    \o zString(f["description"], requiredError("description"))
    \o zString(f["author"], requiredError("date"))
    \o zOptionalString(f["github"])

\* The issues frontmatterSchema finds in the keys of an object.
frontmatterIssues(f) ==
    zString(f["title"], requiredError("title"))
    \o zString(f["date"], requiredError("date"))
    \o zString(f["description"], requiredError("description"))
    \o zString(f["author"], requiredError("author"))
    \o zOptionalString(f["github"])

\* z.object strips the keys the schema does not know.
Strip(f, keys) == [k \in MetaKeys |-> IF k \in keys THEN f[k] ELSE Undefined]

Failure(kind, issues) ==
    [ok |-> FALSE, error |-> kind, issues |-> issues, value |-> NoFields]
Success(f) ==
    [ok |-> TRUE, error |-> "none", issues |-> <<>>, value |-> f]

\* frontmatterSchema.parse(raw)
frontmatterSchemaParse(raw) ==
    IF raw.type # "object" THEN Failure("ZodError", <<"Post not found">>)
    ELSE LET issues == frontmatterIssues(raw.fields)
         IN  IF issues # <<>> THEN Failure("ZodError", issues)
             ELSE Success(Strip(raw.fields, BaseKeys))

IsNumericString(s) == s # <<>> /\ \A i \in 1..Len(s) : s[i] \in Digits

\* (variant: an id schema that accepts numeric strings only)
idSchemaNumericOnly(v) ==
    IF v.type = "string" /\ ~IsNumericString(v.str)
    THEN <<"Invalid">>
    ELSE zString(v, "Required")

\* metaSchema.shape.id, the schema of id: z.string()
idSchemaIssues(v) == zString(v, "Required")

\* metaSchema.parse(raw): frontmatterSchema extended with id and slug.
metaSchemaParse(raw) ==
    IF raw.type # "object" THEN Failure("ZodError", <<"Post not found">>)
    ELSE LET issues == frontmatterIssues(raw.fields)
                       \o idSchemaIssues(raw.fields["id"])
                       \o zString(raw.fields["slug"], "Required")
         IN  IF issues # <<>> THEN Failure("ZodError", issues)
             ELSE Success(Strip(raw.fields, MetaKeys))

(***************************************************************************)
(* The helper functions.                                                   *)
(***************************************************************************)
\* (variant: the lowercasing forgotten)
filenameToIdKeepCase(filename) == replace(filename, fileExtension, <<>>)

filenameToId(filename) == replace(toLowerCase(filename), fileExtension, <<>>)

\* (variant: the separator between id and title forgotten)
slugifyNoSeparator(filename, title) ==
    filenameToId(filename) \o replaceRuns(toLowerCase(title))

slugify(filename, title) ==
    LET id == filenameToId(filename)
        slugedTitle == replaceRuns(toLowerCase(title))
    IN  id \o <<"-">> \o slugedTitle

\* getFilename(slug): [ok, error, issues, value]; value is the filename.
getFilename(slug) ==
    LET m == StringVal(matchLeading(slug))
        issues == idSchemaIssues(m)
    IN  IF issues # <<>>
        THEN [ok |-> FALSE, error |-> "ZodError", issues |-> issues, value |-> <<>>]
        ELSE [ok |-> TRUE, error |-> "none", issues |-> <<>>,
              value |-> m.str \o fileExtension]

(***************************************************************************)
(* Inputs of the helper calls: filenames made of tokens, titles made of    *)
(* characters.                                                             *)
(***************************************************************************)
NameTokens == {<<"1">>, <<"A">>, <<"-">>, fileExtension, <<".", "M", "D", "X">>}
TitleChars == {"W", "1", " ", "-"}

RECURSIVE Flatten(_)
Flatten(parts) ==
    IF parts = <<>> THEN <<>> ELSE Head(parts) \o Flatten(Tail(parts))

SeqsUpTo(S, n) == UNION {[1..k -> S] : k \in 0..n}

Filenames == {Flatten(p) : p \in SeqsUpTo(NameTokens, MaxParts)}
Titles == SeqsUpTo(TitleChars, MaxTitleLen)

HelperIdle ==
    [stage |-> "idle", filename |-> <<>>, title |-> <<>>,
     id |-> <<>>, slug |-> <<>>, back |-> getFilename(<<>>)]
SchemaIdle == [stage |-> "idle", raw |-> NoHeader, result |-> Success(NoFields)]

(***************************************************************************)
(* SpecHelpers: the helpers applied to one filename and one title.         *)
(***************************************************************************)
PostIdle ==
    [stage |-> "idle", slug |-> <<>>, opened |-> FALSE, path |-> <<>>,
     state |-> "none", reason |-> "none", frontmatter |-> ObjectVal(NoFields)]

MainIdle ==
    /\ dir = <<>>
    /\ files = <<>>
    /\ tasks = <<>>
    /\ results = <<>>
    /\ completed = <<>>
    /\ all = [state |-> "none", reason |-> "none"]
    /\ ret = [state |-> "none", reason |-> "none", value |-> <<>>]
    /\ post = PostIdle

mainVars == <<dir, files, tasks, results, completed, all, ret, post>>

InitHelpers ==
    /\ \E f \in Filenames, t \in Titles :
          helper = [HelperIdle EXCEPT !.stage = "input", !.filename = f, !.title = t]
    /\ schema = SchemaIdle
    /\ MainIdle

CallFilenameToId ==
    /\ helper.stage = "input"
    /\ helper' = [helper EXCEPT !.stage = "id", !.id = filenameToId(helper.filename)]
    /\ UNCHANGED <<schema, mainVars>>

CallSlugify ==
    /\ helper.stage = "id"
    /\ helper' = [helper EXCEPT !.stage = "slug",
                                !.slug = slugify(helper.filename, helper.title)]
    /\ UNCHANGED <<schema, mainVars>>

CallGetFilename ==
    /\ helper.stage = "slug"
    /\ helper' = [helper EXCEPT !.stage = "filename", !.back = getFilename(helper.slug)]
    /\ UNCHANGED <<schema, mainVars>>

NextHelpers == CallFilenameToId \/ CallSlugify \/ CallGetFilename

SpecHelpers == InitHelpers /\ [][NextHelpers]_vars

(***************************************************************************)
(* SpecSchema: frontmatterSchema.parse applied to one raw header.          *)
(***************************************************************************)
SampleValues == {Undefined, StringVal(<<"x">>), NumberVal}

RawHeaders ==
    {NoHeader} \cup
    {ObjectVal([k \in MetaKeys |-> IF k \in BaseKeys THEN g[k] ELSE Undefined]) :
        g \in [BaseKeys -> SampleValues]}

InitSchema ==
    /\ \E raw \in RawHeaders : schema = [SchemaIdle EXCEPT !.stage = "input", !.raw = raw]
    /\ helper = HelperIdle
    /\ MainIdle

ParseFrontmatter ==
    /\ schema.stage = "input"
    /\ schema' = [schema EXCEPT !.stage = "parsed",
                                !.result = frontmatterSchemaParse(schema.raw)]
    /\ UNCHANGED <<helper, mainVars>>

NextSchema == ParseFrontmatter

SpecSchema == InitSchema /\ [][NextSchema]_vars

(***************************************************************************)
(* Numbers: the unary plus of `+b.id - +a.id` (ToNumber on a string).      *)
(* A number is NaN or num / 10^scale.  The literal forms modelled are the  *)
(* ones that the characters of the model's filenames can spell: white      *)
(* space around the literal, a sign, decimal digits with an optional       *)
(* fraction, and the 0x / 0o / 0b radix prefixes (no exponent, no          *)
(* Infinity).                                                              *)
(***************************************************************************)
NaN == [nan |-> TRUE, num |-> 0, scale |-> 0]
Num(n, k) == [nan |-> FALSE, num |-> n, scale |-> k]

DigitVal(c) ==
    CASE c = "0" -> 0 [] c = "1" -> 1 [] c = "2" -> 2 [] c = "3" -> 3
      [] c = "4" -> 4 [] c = "5" -> 5 [] c = "6" -> 6 [] c = "7" -> 7
      [] c = "8" -> 8 [] c = "9" -> 9 [] c = "a" -> 10 [] c = "b" -> 11
      [] c = "c" -> 12 [] c = "d" -> 13 [] c = "e" -> 14 [] c = "f" -> 15
      [] OTHER -> 99

IsDigitOf(c, base) == DigitVal(c) < base

AllDigits(s, base) == \A i \in 1..Len(s) : IsDigitOf(s[i], base)

RECURSIVE RadixValue(_, _)
RadixValue(s, base) ==
    IF s = <<>> THEN 0
    ELSE RadixValue(SubSeq(s, 1, Len(s) - 1), base) * base + DigitVal(s[Len(s)])

RECURSIVE TrimLeft(_)
TrimLeft(s) == IF s # <<>> /\ Head(s) = " " THEN TrimLeft(Tail(s)) ELSE s

RECURSIVE TrimRight(_)
TrimRight(s) ==
    IF s # <<>> /\ s[Len(s)] = " " THEN TrimRight(SubSeq(s, 1, Len(s) - 1)) ELSE s

\* An unsigned decimal literal: digits, digits "." digits, or "." digits.
UnsignedDecimal(s) ==
    LET dots == {i \in 1..Len(s) : s[i] = "."}
    IN  IF dots = {}
        THEN IF s # <<>> /\ AllDigits(s, 10) THEN Num(RadixValue(s, 10), 0) ELSE NaN
        ELSE LET d == CHOOSE i \in dots : \A j \in dots : i <= j
                 int == SubSeq(s, 1, d - 1)
                 frac == SubSeq(s, d + 1, Len(s))
             IN  IF /\ AllDigits(int, 10)
                    /\ AllDigits(frac, 10)
                    /\ int \o frac # <<>>
                 THEN Num(RadixValue(int \o frac, 10), Len(frac))
                 ELSE NaN

RadixBase(c) == CASE c = "x" -> 16 [] c = "o" -> 8 [] c = "b" -> 2 [] OTHER -> 0

ToNumber(str) ==
    LET s == toLowerCase(TrimRight(TrimLeft(str)))
    IN  IF s = <<>> THEN Num(0, 0)
        ELSE IF Len(s) >= 3 /\ s[1] = "0" /\ RadixBase(s[2]) # 0
        THEN LET body == SubSeq(s, 3, Len(s))
             IN  IF AllDigits(body, RadixBase(s[2]))
                 THEN Num(RadixValue(body, RadixBase(s[2])), 0)
                 ELSE NaN
        ELSE IF s[1] = "-"
        THEN LET u == UnsignedDecimal(Tail(s))
             IN  IF u.nan THEN NaN ELSE Num(0 - u.num, u.scale)
        ELSE IF s[1] = "+" THEN UnsignedDecimal(Tail(s))
        ELSE UnsignedDecimal(s)

RECURSIVE Pow10(_)
Pow10(k) == IF k = 0 THEN 1 ELSE 10 * Pow10(k - 1)

Sign(n) == IF n < 0 THEN -1 ELSE IF n > 0 THEN 1 ELSE 0

\* x - y, as far as the sort reads it: NaN, or the sign of the difference.
Minus(x, y) ==
    IF x.nan \/ y.nan THEN [nan |-> TRUE, sign |-> 0]
    ELSE [nan |-> FALSE,
          sign |-> Sign(x.num * Pow10(y.scale) - y.num * Pow10(x.scale))]

(***************************************************************************)
(* Array.prototype.sort with the comparator of getPosts.                   *)
(***************************************************************************)
\* (variant: the operands swapped, an ascending sort)
comparatorAscending(a, b) == Minus(ToNumber(a["id"].str), ToNumber(b["id"].str))

\* (a, b) => +b.id - +a.id
comparator(a, b) == Minus(ToNumber(b["id"].str), ToNumber(a["id"].str))

\* SortCompare: a NaN result of the comparator counts as +0.
SortCompare(a, b) == LET v == comparator(a, b) IN IF v.nan THEN 0 ELSE v.sign

Range(f) == {f[i] : i \in DOMAIN f}

\* The comparator is a consistent comparator for the elements of list.
ConsistentComparator(list) ==
    LET S == Range(list)
    IN  /\ \A a \in S : SortCompare(a, a) = 0
        /\ \A a, b \in S : SortCompare(a, b) = 0 - SortCompare(b, a)
        /\ \A a, b, c \in S :
              /\ (SortCompare(a, b) = 0 /\ SortCompare(b, c) = 0)
                    => SortCompare(a, c) = 0
              /\ (SortCompare(a, b) < 0 /\ SortCompare(b, c) < 0)
                    => SortCompare(a, c) < 0

\* Insert e behind every element that does not sort after it.
RECURSIVE InsertStable(_, _)
InsertStable(sorted, e) ==
    IF sorted = <<>> THEN <<e>>
    ELSE IF SortCompare(Head(sorted), e) <= 0
    THEN <<Head(sorted)>> \o InsertStable(Tail(sorted), e)
    ELSE <<e>> \o sorted

RECURSIVE StableSort(_)
StableSort(list) ==
    IF list = <<>> THEN <<>>
    ELSE InsertStable(StableSort(SubSeq(list, 1, Len(list) - 1)), list[Len(list)])

Bijections(n) == {p \in [1..n -> 1..n] : \A i, j \in 1..n : p[i] = p[j] => i = j}

Orderings(list) ==
    {[i \in 1..Len(list) |-> list[p[i]]] : p \in Bijections(Len(list))}

\* The arrays posts.sort(...) can return: the stable sort when the
\* comparator is consistent; an implementation-defined order otherwise.
sort(list) ==
    IF ConsistentComparator(list) THEN {StableSort(list)} ELSE Orderings(list)

(***************************************************************************)
(* The content directory.  A file's content is what the readers make of    *)
(* it: readFileSync throws on it ("unreadable", e.g. a sub-directory),     *)
(* compileMDX rejects it ("malformed"), or compileMDX resolves with the    *)
(* frontmatter object of its header ("mdx").                               *)
(***************************************************************************)
Header(title, author, github) ==
    ObjectVal([k \in MetaKeys |->
        CASE k = "title" -> title
          [] k = "date" -> StringVal(<<"2">>)
          [] k = "description" -> StringVal(<<"d">>)
          [] k = "author" -> author
          [] k = "github" -> github
          [] OTHER -> Undefined])

Content(kind, header) == [kind |-> kind, header |-> header]

HelloWorld == <<"H", " ", "W">>
Other == <<"A">>

Unreadable == Content("unreadable", ObjectVal(NoFields))
Malformed == Content("malformed", ObjectVal(NoFields))
DocFull == Content("mdx", Header(StringVal(HelloWorld), StringVal(<<"a">>), StringVal(<<"g">>)))
DocNoGithub == Content("mdx", Header(StringVal(Other), StringVal(<<"a">>), Undefined))
DocNoAuthor == Content("mdx", Header(StringVal(HelloWorld), Undefined, Undefined))

FileContents == {Unreadable, Malformed, DocFull, DocNoGithub, DocNoAuthor}

FileNames ==
    {<<"1">> \o fileExtension,
     <<"2">> \o fileExtension,
     <<"1", "0">> \o fileExtension,
     <<"0", "1">> \o fileExtension,
     <<"1", ".", "M", "D", "X">>,
     <<"a", "-", "b">> \o fileExtension}

Directories ==
    UNION {[S -> FileContents] : S \in {T \in SUBSET FileNames : Cardinality(T) <= MaxFiles}}

\* The slugs getPost is called with: the slugs of the listing and others.
PostSlugs ==
    {slugify(f, t) : f \in FileNames, t \in {HelloWorld, Other}}
    \cup {<<>>, <<"1">>, <<"-", "x">>, <<"1", "-", "z", "-", "z">>, <<"9", "-", "a">>}

Pending == [state |-> "pending", reason |-> "none"]
Fulfilled == [state |-> "fulfilled", reason |-> "none"]
Rejected(reason) == [state |-> "rejected", reason |-> reason]

Init ==
    /\ helper = HelperIdle
    /\ schema = SchemaIdle
    /\ dir \in Directories
    /\ files = <<>>
    /\ tasks = <<>>
    /\ results = <<>>
    /\ completed = <<>>
    /\ all = [state |-> "none", reason |-> "none"]
    /\ ret = [state |-> "none", reason |-> "none", value |-> <<>>]
    /\ post = PostIdle

(***************************************************************************)
(* getPosts                                                                *)
(***************************************************************************)
\* readdirSync(blogDir): the filenames, in any order.
readdirSync(d) ==
    LET n == Cardinality(DOMAIN d)
    IN  {q \in [1..n -> DOMAIN d] : \A i, j \in 1..n : q[i] = q[j] => i = j}

\* The part of a task that runs inside files.map, up to its first await:
\* readFileSync, then the call of compileMDX.
taskStart(content) ==
    IF content.kind = "unreadable" THEN Rejected("ReadError") ELSE Pending

\* The part of a task that runs when compileMDX settles: [promise, value].
taskFinish(filename, content) ==
    IF content.kind = "malformed"
    THEN [promise |-> Rejected("CompileError"), value |-> NoFields]
    ELSE LET parsed == frontmatterSchemaParse(content.header)
         IN  IF ~parsed.ok
             THEN [promise |-> Rejected("ZodError"), value |-> NoFields]
             ELSE LET f == parsed.value
                      meta == metaSchemaParse(ObjectVal(
                          [f EXCEPT !["id"] = StringVal(filenameToId(filename)),
                                    !["slug"] = StringVal(slugify(filename, f["title"].str))]))
                  IN  IF ~meta.ok
                      THEN [promise |-> Rejected("ZodError"), value |-> NoFields]
                      ELSE [promise |-> Fulfilled, value |-> meta.value]

\* (variant: Promise.allSettled, which waits for every task and never rejects)
promiseAllSettled(current, ps, settled) ==
    IF current.state # "pending" THEN current
    ELSE IF \A i \in 1..Len(ps) : ps[i].state # "pending" THEN Fulfilled
    ELSE Pending

\* Promise.all over the promises ps, after one of them settled: the first
\* rejection rejects it, the last fulfilment fulfils it.
promiseAll(current, ps, settled) ==
    IF current.state # "pending" THEN current
    ELSE IF settled.state = "rejected" THEN settled
    ELSE IF \A i \in 1..Len(ps) : ps[i].state = "fulfilled" THEN Fulfilled
    ELSE Pending

\* getPosts up to `await Promise.all(...)`: the directory is enumerated and
\* every task runs up to its await.  A task whose read threw is already
\* rejected when Promise.all subscribes to it, so it rejects Promise.all
\* before any task that awaits compileMDX can settle.
GetPostsStart ==
    /\ ret.state = "none"
    /\ post.stage = "idle"
    /\ \E q \in readdirSync(dir) :
          LET ps == [i \in 1..Len(q) |-> taskStart(dir[q[i]])]
              failed == {i \in 1..Len(q) : ps[i].state = "rejected"}
          IN  /\ files' = q
              /\ tasks' = ps
              /\ results' = [i \in 1..Len(q) |-> NoFields]
              /\ all' = IF failed # {}
                        THEN ps[CHOOSE i \in failed : \A j \in failed : i <= j]
                        ELSE IF Len(q) = 0 THEN Fulfilled ELSE Pending
    /\ completed' = <<>>
    /\ ret' = [state |-> "pending", reason |-> "none", value |-> <<>>]
    /\ UNCHANGED <<helper, schema, dir, post>>

\* compileMDX of task i settles and the task runs to its end.
TaskSettle(i) ==
    /\ i \in 1..Len(tasks)
    /\ tasks[i].state = "pending"
    /\ LET r == taskFinish(files[i], dir[files[i]])
           ps == [tasks EXCEPT ![i] = r.promise]
       IN  /\ tasks' = ps
           /\ results' = [results EXCEPT ![i] = r.value]
           /\ all' = promiseAll(all, ps, r.promise)
    /\ completed' = Append(completed, i)
    /\ UNCHANGED <<helper, schema, dir, files, ret, post>>

\* getPosts after `await Promise.all(...)`: sort and return, or throw.
GetPostsResume ==
    /\ ret.state = "pending"
    /\ all.state \in {"fulfilled", "rejected"}
    /\ IF all.state = "rejected"
       THEN ret' = [state |-> "rejected", reason |-> all.reason, value |-> <<>>]
       ELSE \E sorted \in sort(results) :
               ret' = [state |-> "fulfilled", reason |-> "none", value |-> sorted]
    /\ UNCHANGED <<helper, schema, dir, files, tasks, results, completed, all, post>>

(***************************************************************************)
(* getPost                                                                 *)
(***************************************************************************)
\* getPost up to `await compileMDX(...)`: getFilename, then readFileSync.
GetPostStart(slug) ==
    /\ post.stage = "idle"
    /\ ret.state = "none"
    /\ LET r == getFilename(slug)
           p == [post EXCEPT !.slug = slug]
       IN  post' =
             IF ~r.ok
             THEN [p EXCEPT !.stage = "done", !.state = "rejected", !.reason = r.error]
             ELSE IF r.value \notin DOMAIN dir
             THEN [p EXCEPT !.stage = "done", !.opened = TRUE, !.path = r.value,
                            !.state = "rejected", !.reason = "NotFound"]
             ELSE IF dir[r.value].kind = "unreadable"
             THEN [p EXCEPT !.stage = "done", !.opened = TRUE, !.path = r.value,
                            !.state = "rejected", !.reason = "ReadError"]
             ELSE [p EXCEPT !.stage = "compiling", !.opened = TRUE, !.path = r.value,
                            !.state = "pending"]
    /\ UNCHANGED <<helper, schema, dir, files, tasks, results, completed, all, ret>>

\* compileMDX settles and getPost returns its result as it is.
GetPostFinish ==
    /\ post.stage = "compiling"
    /\ post' =
         IF dir[post.path].kind = "malformed"
         THEN [post EXCEPT !.stage = "done", !.state = "rejected", !.reason = "CompileError"]
         ELSE [post EXCEPT !.stage = "done", !.state = "fulfilled",
                           !.frontmatter = dir[post.path].header]
    /\ UNCHANGED <<helper, schema, dir, files, tasks, results, completed, all, ret>>

Next ==
    \/ GetPostsStart
    \/ \E i \in 1..MaxFiles : TaskSettle(i)
    \/ GetPostsResume
    \/ \E slug \in PostSlugs : GetPostStart(slug)
    \/ GetPostFinish

Spec == Init /\ [][Next]_vars

(***************************************************************************)
(* Properties of the helpers (SpecHelpers).                                *)
(***************************************************************************)
IsLowerCase(s) == s = toLowerCase(s)
HasHyphen(s) == \E i \in 1..Len(s) : s[i] = "-"
HasAlnum(s) == \E i \in 1..Len(s) : IsLowerAlnum(ToLowerChar(s[i]))
ExtensionOnlyAsSuffix(s) ==
    Occurrences(s, fileExtension) = {Len(s) - Len(fileExtension) + 1}

\* C1, as claimed: for every filename that ends in the extension and whose
\* id has no hyphen, and every title, getFilename(slugify(f, t)) = f.
RoundTripLaw ==
    (/\ helper.stage = "filename"
     /\ EndsWith(helper.filename, fileExtension)
     /\ ~HasHyphen(helper.id))
        => (helper.back.ok /\ helper.back.value = helper.filename)

\* C1, amended: the round trip holds for every LOWERCASE filename in which
\* the extension occurs only as the suffix and whose id has no hyphen.
RoundTripLowercase ==
    (/\ helper.stage = "filename"
     /\ IsLowerCase(helper.filename)
     /\ ExtensionOnlyAsSuffix(helper.filename)
     /\ ~HasHyphen(helper.id))
        => (helper.back.ok /\ helper.back.value = helper.filename)

RoundTripWitness ==
    /\ helper.stage = "filename"
    /\ IsLowerCase(helper.filename)
    /\ ExtensionOnlyAsSuffix(helper.filename)
    /\ ~HasHyphen(helper.id)
    /\ Len(helper.id) >= 2
    /\ HasHyphen(replaceRuns(toLowerCase(helper.title)))
    /\ helper.back.value = helper.filename

\* The transformed title, stated position by position: a character of
\* [a-z0-9] is kept, the first character of a run of others becomes a
\* hyphen, the rest of the run is dropped.
RECURSIVE CollapseFrom(_, _)
CollapseFrom(s, i) ==
    IF i > Len(s) THEN <<>>
    ELSE IF IsLowerAlnum(s[i]) THEN <<s[i]>> \o CollapseFrom(s, i + 1)
    ELSE IF i = 1 \/ IsLowerAlnum(s[i - 1]) THEN <<"-">> \o CollapseFrom(s, i + 1)
    ELSE CollapseFrom(s, i + 1)

\* C9, as claimed: a title without alphanumeric characters gives the slug
\* id + "-".
EmptyTitleSlug ==
    (helper.stage \in {"slug", "filename"} /\ ~HasAlnum(helper.title))
        => helper.slug = helper.id \o <<"-">>

\* C9, amended: the slug is id + "-" + the title with every maximal run of
\* characters outside [a-z0-9] collapsed to one hyphen; a title without
\* alphanumeric characters gives id + "-" only when it is empty, and
\* id + "--" otherwise (the whole title is one run, which becomes a hyphen).
SlugifyCollapsesRuns ==
    helper.stage \in {"slug", "filename"} =>
        /\ helper.slug =
              helper.id \o <<"-">> \o CollapseFrom(toLowerCase(helper.title), 1)
        /\ ~HasAlnum(helper.title) =>
              helper.slug = helper.id \o
                  (IF helper.title = <<>> THEN <<"-">> ELSE <<"-", "-">>)

SlugifyWitness ==
    /\ helper.stage = "slug"
    /\ Len(helper.title) >= 2
    /\ ~HasAlnum(helper.title)
    /\ helper.slug = helper.id \o <<"-", "-">>

\* C10, as claimed: filenameToId is a no-op on every (lowercase) id that
\* does not end in the extension.
FilenameToIdNoOp ==
    (/\ helper.stage # "idle"
     /\ helper.stage # "input"
     /\ IsLowerCase(helper.filename)
     /\ ~EndsWith(helper.filename, fileExtension))
        => helper.id = helper.filename

\* C10, amended: filenameToId lowercases the name and removes the FIRST
\* occurrence of the extension, wherever it is; it is a no-op exactly on the
\* lowercase names in which the extension does not occur at all, and it
\* strips the suffix of a name whose lowercase form has the extension only
\* as its suffix.
FilenameToIdFixpoint ==
    (helper.stage # "idle" /\ helper.stage # "input") =>
        /\ helper.id = helper.filename
              <=> (/\ IsLowerCase(helper.filename)
                   /\ Occurrences(helper.filename, fileExtension) = {})
        /\ ExtensionOnlyAsSuffix(toLowerCase(helper.filename)) =>
              helper.id \o fileExtension = toLowerCase(helper.filename)

FilenameToIdWitness ==
    /\ helper.stage = "id"
    /\ Len(helper.filename) >= 2
    /\ IsLowerCase(helper.filename)
    /\ Occurrences(helper.filename, fileExtension) = {}
    /\ helper.id = helper.filename

(***************************************************************************)
(* Properties of the header validation (SpecSchema).                       *)
(***************************************************************************)
ClaimedMessage(key) ==
    CASE key = "title" -> "Title is required"
      [] key = "date" -> "Date is required"
      [] key = "description" -> "Description is required"
      [] key = "author" -> "Author is required"

MissingKeys(f) == {k \in Range(RequiredKeys) : f[k].type = "undefined"}

\* C4: a header object that misses required fields is rejected and the
\* required-messages reported are exactly those of the missing fields; a
\* header with the four required text fields and no github is accepted.
ValidationNamesMissingField ==
    (schema.stage = "parsed" /\ schema.raw.type = "object") =>
        LET f == schema.raw.fields
        IN  /\ MissingKeys(f) # {} => ~schema.result.ok
            /\ \A k \in Range(RequiredKeys) :
                  ClaimedMessage(k) \in Range(schema.result.issues)
                      <=> k \in MissingKeys(f)
            /\ Cardinality(MissingKeys(f)) = 1 /\ (\A k \in BaseKeys : f[k].type # "number")
                  => Len(schema.result.issues) = 1
            /\ ((\A k \in Range(RequiredKeys) : f[k].type = "string")
                    /\ f["github"].type = "undefined")
                  => schema.result.ok

ValidationWitness ==
    /\ schema.stage = "parsed"
    /\ schema.raw.type = "object"
    /\ MissingKeys(schema.raw.fields) = {"author"}
    /\ schema.raw.fields["github"].type = "undefined"
    /\ schema.result.issues = <<"Author is required">>

(***************************************************************************)
(* Properties of getPosts (Spec).                                          *)
(***************************************************************************)
\* A file loads, compiles and validates: it is readable mdx whose header
\* has the four required text fields and, if any, a text github.
GoodFile(c) ==
    /\ c.kind = "mdx"
    /\ \A k \in Range(RequiredKeys) : c.header.fields[k].type = "string"
    /\ c.header.fields["github"].type \in {"undefined", "string"}

Settled(p) == p.state \in {"fulfilled", "rejected"}

NumberOf(entry) == ToNumber(entry["id"].str)
Value(entry) == NumberOf(entry).num * Pow10(3 - NumberOf(entry).scale)

AllNumeric == \A f \in DOMAIN dir : ~ToNumber(filenameToId(f)).nan

\* The entry of a file: its validated header with the derived id and slug.
IsEntryOf(entry, filename) ==
    LET h == dir[filename].header.fields
    IN  /\ \A k \in BaseKeys : entry[k] = h[k]
        /\ entry["id"].type = "string"
        /\ entry["id"].str \o fileExtension = toLowerCase(filename)
        /\ entry["slug"].type = "string"
        /\ SubSeq(entry["slug"].str, 1, Len(entry["id"].str) + 1)
              = entry["id"].str \o <<"-">>

\* The ways to read the returned array as one entry per enumerated file.
Matchings ==
    {p \in Bijections(Len(files)) :
        \A k \in 1..Len(files) : IsEntryOf(ret.value[k], files[p[k]])}

\* C2, as claimed: with numeric ids the result is strictly descending in
\* the numeric id, whatever the enumeration order.
SortedStrictlyDescending ==
    (ret.state = "fulfilled" /\ AllNumeric) =>
        \A k \in 1..(Len(ret.value) - 1) : Value(ret.value[k]) > Value(ret.value[k + 1])

\* C2, amended: with numeric ids the result is sorted by NON-INCREASING
\* numeric id, whatever the completion order; it is strictly descending when
\* the numeric values are pairwise distinct, and entries whose ids have the
\* same numeric value (1.mdx and 01.mdx) stay in enumeration order.
SortedDescending ==
    (ret.state = "fulfilled" /\ AllNumeric) =>
        /\ Len(ret.value) = Len(files)
        /\ \A k \in 1..(Len(ret.value) - 1) :
              Value(ret.value[k]) >= Value(ret.value[k + 1])
        /\ (\A f, g \in DOMAIN dir :
               f # g => Minus(ToNumber(filenameToId(f)), ToNumber(filenameToId(g))).sign # 0)
              => \A k \in 1..(Len(ret.value) - 1) :
                    Value(ret.value[k]) > Value(ret.value[k + 1])
        /\ \E p \in Matchings :
              \A k, l \in 1..Len(files) :
                 (k < l /\ Value(ret.value[k]) = Value(ret.value[l])) => p[k] < p[l]

SortedWitness ==
    /\ ret.state = "fulfilled"
    /\ AllNumeric
    /\ Len(files) >= 2
    /\ completed[1] # 1
    /\ ret.value # results
    /\ Value(ret.value[1]) > Value(ret.value[2])

\* C3: getPosts is all-or-nothing.  It fulfils only when every enumerated
\* file loads, compiles and validates, and then with exactly one entry per
\* enumerated file; with one bad file it can only reject, returning nothing,
\* whatever the other tasks fulfilled with.
AllOrNothing ==
    /\ ret.state = "fulfilled" =>
          /\ \A f \in DOMAIN dir : GoodFile(dir[f])
          /\ Len(ret.value) = Len(files)
          /\ Matchings # {}
    /\ (Settled(ret) /\ \E f \in DOMAIN dir : ~GoodFile(dir[f])) =>
          /\ ret.state = "rejected"
          /\ ret.value = <<>>

AllOrNothingWitness ==
    /\ ret.state = "rejected"
    /\ \E i \in 1..Len(tasks) : tasks[i].state = "fulfilled"
    /\ \E i \in 1..Len(tasks) : dir[files[i]].header.fields["author"].type = "undefined"
                                 /\ dir[files[i]].kind = "mdx"

\* C7, as claimed: every returned entry has a numeric, hyphen-free id.
ReturnedIdsNumeric ==
    ret.state = "fulfilled" =>
        \A k \in 1..Len(ret.value) : IsNumericString(ret.value[k]["id"].str)

\* C7, amended: every returned entry has a text id, the lowercased filename
\* without its extension, numeric or not: the schema of id accepts any text,
\* so a non-numeric id fails neither the document nor the listing.
ReturnedIdsText ==
    /\ ret.state = "fulfilled" =>
          \A k \in 1..Len(ret.value) :
             /\ ret.value[k]["id"].type = "string"
             /\ IsLowerCase(ret.value[k]["id"].str)
             /\ \E f \in DOMAIN dir :
                   ret.value[k]["id"].str \o fileExtension = toLowerCase(f)
    /\ (Settled(ret) /\ \A f \in DOMAIN dir : GoodFile(dir[f])) => ret.state = "fulfilled"

ReturnedIdsWitness ==
    /\ ret.state = "fulfilled"
    /\ \E k \in 1..Len(ret.value) :
          /\ HasHyphen(ret.value[k]["id"].str)
          /\ ~IsNumericString(ret.value[k]["id"].str)

(***************************************************************************)
(* Properties of getPost (Spec).                                           *)
(***************************************************************************)
\* The characters of the slug before its first hyphen.
Segment(slug) ==
    LET hy == {i \in 1..Len(slug) : slug[i] = "-"}
    IN  IF hy = {} THEN slug
        ELSE SubSeq(slug, 1, (CHOOSE i \in hy : \A j \in hy : i <= j) - 1)

Called == post.stage # "idle"

\* C5: a header that misses a field of the extended schema makes getPost
\* fail with a schema validation error.
GetPostValidates ==
    (/\ post.stage = "done"
     /\ post.opened
     /\ post.path \in DOMAIN dir
     /\ dir[post.path].kind = "mdx"
     /\ \E k \in Range(RequiredKeys) \cup {"id", "slug"} :
           dir[post.path].header.fields[k].type = "undefined")
        => (post.state = "rejected" /\ post.reason = "ZodError")

\* C6, as claimed: a slug whose leading segment is not a numeric string
\* makes getPost fail with a schema error before any file is read.
MalformedSlugRejected ==
    (Called /\ ~IsNumericString(Segment(post.slug))) =>
        (post.state = "rejected" /\ post.reason = "ZodError" /\ ~post.opened)

\* C6, amended: the schema of id accepts any text and the leading segment
\* is always text, so getPost never fails with a schema error on the slug:
\* for every slug, the empty-segment ones included, it goes on to read the
\* file segment + extension, and fails with NotFound when there is none.
SlugNeverRejected ==
    Called =>
        /\ post.opened
        /\ post.reason # "ZodError"
        /\ post.path \notin DOMAIN dir
              <=> (post.state = "rejected" /\ post.reason = "NotFound")

SlugWitness ==
    /\ post.stage = "done"
    /\ post.slug # <<>>
    /\ Segment(post.slug) = <<>>
    /\ post.opened
    /\ post.path = fileExtension
    /\ post.reason = "NotFound"

\* C8: the file getPost reads is the leading segment of the slug plus the
\* extension; every slug with the same leading segment names the same file.
ReadsLeadingSegment ==
    (Called /\ post.opened) =>
        /\ post.path = Segment(post.slug) \o fileExtension
        /\ \A other \in PostSlugs :
              Segment(other) = Segment(post.slug)
                  => getFilename(other).value = post.path

ReadsLeadingSegmentWitness ==
    /\ post.stage = "done"
    /\ post.state = "fulfilled"
    /\ Cardinality({i \in 1..Len(post.slug) : post.slug[i] = "-"}) >= 2
    /\ \E other \in PostSlugs : other # post.slug /\ Segment(other) = Segment(post.slug)

====
